---- MODULE Spec2Model ----
(***************************************************************************)
(* Model of the Q/A Trainer (src/src/main.cpp): the review session kept in *)
(* g_state, the rating log, the New Card window and the message handlers   *)
(* that change them.                                                       *)
(*                                                                         *)
(* A std::wstring is a sequence of characters, each character a one-letter *)
(* string; the pseudo character "U+00E9" stands for one wide character     *)
(* outside ASCII.  A std::string written to the log is a sequence of       *)
(* bytes; an ASCII byte is written as its letter.                          *)
(***************************************************************************)
EXTENDS Integers, Sequences, FiniteSets, TLC

(***************************************************************************)
(* Bounds of the model.                                                    *)
(***************************************************************************)
\* Cards the deck may hold before File > New Card is no longer explored.
MaxCards == 3
\* Successful ratings explored in one run.
MaxRatings == 3
\* New Card windows open at the same time.
MaxWindows == 1

(***************************************************************************)
(* Text helpers.                                                           *)
(***************************************************************************)
\* std::wstring::npos; positions are counted from 0 as in the source.
npos == -1

\* The separator set L" \t\r\n" of TrimWide.
Whitespace == {" ", "\t", "\r", "\n"}

\* text.find_first_not_of(L" \t\r\n")
FindFirstNotOf(text, chars) ==
    IF \E i \in 1..Len(text) : text[i] \notin chars
    THEN (CHOOSE i \in 1..Len(text) :
              /\ text[i] \notin chars
              /\ \A j \in 1..(i - 1) : text[j] \in chars) - 1
    ELSE npos

\* text.find_last_not_of(L" \t\r\n")
FindLastNotOf(text, chars) ==
    IF \E i \in 1..Len(text) : text[i] \notin chars
    THEN (CHOOSE i \in 1..Len(text) :
              /\ text[i] \notin chars
              /\ \A j \in (i + 1)..Len(text) : text[j] \in chars) - 1
    ELSE npos

\* text.substr(pos, count)
Substr(text, pos, count) == SubSeq(text, pos + 1, pos + count)

\* A variant of TrimWide that strips blanks only.
TrimWideSpacesOnly(text) ==
    LET first == FindFirstNotOf(text, {" "})
        last == FindLastNotOf(text, {" "})
    IN  IF first = npos THEN <<>> ELSE Substr(text, first, last - first + 1)

TrimWide(text) ==
    LET first == FindFirstNotOf(text, Whitespace)
        last == FindLastNotOf(text, Whitespace)
    IN  IF first = npos THEN <<>> ELSE Substr(text, first, last - first + 1)

\* One decimal digit of std::to_wstring.
Digit(d) == <<"0", "1", "2", "3", "4", "5", "6", "7", "8", "9">>[d + 1]

\* std::to_wstring(counter) for counter >= 0.
RECURSIVE ToWString(_)
ToWString(n) ==
    IF n < 10 THEN <<Digit(n)>> ELSE ToWString(n \div 10) \o <<Digit(n % 10)>>

\* UTF-8 bytes of one wide character.
Utf8Bytes(c) == IF c = "U+00E9" THEN <<"0xC3", "0xA9">> ELSE <<c>>

\* ToUtf8: the concatenation of the bytes of every character.
RECURSIVE ToUtf8(_)
ToUtf8(text) ==
    IF text = <<>> THEN <<>> ELSE Utf8Bytes(Head(text)) \o ToUtf8(Tail(text))

\* enum class Rating
Rating == {"Bad", "Meh", "Good"}

RatingToText(rating) ==
    CASE rating = "Good" -> "good"
      [] rating = "Meh" -> "meh"
      [] rating = "Bad" -> "bad"
      [] OTHER -> "unknown"

(***************************************************************************)
(* Cards and decks.                                                        *)
(***************************************************************************)
Card(id, question, answer) == [id |-> id, question |-> question, answer |-> answer]

IsCardComplete(card) ==
    card.id # <<>> /\ card.question # <<>> /\ card.answer # <<>>

LoadDefaultCards ==
    << Card(<<"c", "a", "p", "i", "t", "a", "l", "-", "f", "r", "a", "n", "c", "e">>,
            <<"W", "h", "a", "t", " ", "i", "s", " ", "t", "h", "e", " ", "c",
              "a", "p", "i", "t", "a", "l", " ", "o", "f", " ", "F", "r", "a",
              "n", "c", "e", "?">>,
            <<"P", "a", "r", "i", "s">>),
       Card(<<"m", "a", "t", "h", "-", "b", "a", "s", "i", "c", "-", "2", "-",
              "p", "l", "u", "s", "-", "2">>,
            <<"W", "h", "a", "t", " ", "i", "s", " ", "2", " ", "+", " ", "2", "?">>,
            <<"4">>),
       Card(<<"l", "a", "r", "g", "e", "s", "t", "-", "p", "l", "a", "n", "e", "t">>,
            <<"N", "a", "m", "e", " ", "t", "h", "e", " ", "l", "a", "r", "g",
              "e", "s", "t", " ", "p", "l", "a", "n", "e", "t", " ", "i", "n",
              " ", "o", "u", "r", " ", "s", "o", "l", "a", "r", " ", "s", "y",
              "s", "t", "e", "m", ".">>,
            <<"J", "u", "p", "i", "t", "e", "r">>) >>

\* L"card-"
CardPrefix == <<"c", "a", "r", "d", "-">>

(***************************************************************************)
(* The deck file.  A file is whether it can be opened and its lines as     *)
(* std::getline gives them, each a sequence of bytes.  The bytes 0xC3 0xA9  *)
(* are the UTF-8 of U+00E9; the byte 0xFF is part of no UTF-8 sequence.     *)
(***************************************************************************)
\* " \t\r\n" of Trim
TrimChars == {" ", "\t", "\r", "\n"}

\* Trim on a std::string
Trim(text) ==
    LET first == FindFirstNotOf(text, TrimChars)
        last == FindLastNotOf(text, TrimChars)
    IN  IF first = npos THEN <<>> ELSE Substr(text, first, last - first + 1)

\* from_bytes can convert text: every byte belongs to a UTF-8 sequence.
RECURSIVE ValidUtf8(_)
ValidUtf8(text) ==
    IF text = <<>>
    THEN TRUE
    ELSE IF Head(text) = "0xC3"
         THEN Len(text) >= 2 /\ text[2] = "0xA9" /\ ValidUtf8(SubSeq(text, 3, Len(text)))
         ELSE Head(text) \notin {"0xA9", "0xFF"} /\ ValidUtf8(Tail(text))

\* ToWide throws std::range_error: the converter has no error string, so
\* from_bytes throws on bytes it cannot convert.
ToWideThrows(text) == ~ValidUtf8(text)

\* ToWide: one wide character for every UTF-8 sequence of the bytes.
RECURSIVE ToWide(_)
ToWide(text) ==
    IF text = <<>>
    THEN <<>>
    ELSE IF Len(text) >= 2 /\ SubSeq(text, 1, 2) = <<"0xC3", "0xA9">>
         THEN <<"U+00E9">> \o ToWide(SubSeq(text, 3, Len(text)))
         ELSE <<Head(text)>> \o ToWide(Tail(text))

\* line.rfind(prefix, 0) == 0
StartsWith(line, prefix) ==
    Len(line) >= Len(prefix) /\ SubSeq(line, 1, Len(prefix)) = prefix

KeyId == <<"i", "d">>
KeyQuestion == <<"q", "u", "e", "s", "t", "i", "o", "n">>
KeyAnswer == <<"a", "n", "s", "w", "e", "r">>

ExtractValue(line, key) ==
    LET prefix == key \o <<":">>
    IN  IF ~StartsWith(line, prefix)
        THEN <<>>
        ELSE ToWide(Trim(Substr(line, Len(prefix), Len(line) - Len(prefix))))

\* ExtractValue throws what its ToWide throws.
ExtractValueThrows(line, key) ==
    LET prefix == key \o <<":">>
    IN  /\ StartsWith(line, prefix)
        /\ ToWideThrows(Trim(Substr(line, Len(prefix), Len(line) - Len(prefix))))

\* The if / else if chain of LoadCardsFromYaml throws in its ExtractValue.
StoreKeyThrows(entry) ==
    IF StartsWith(entry, KeyId \o <<":">>)
    THEN ExtractValueThrows(entry, KeyId)
    ELSE IF StartsWith(entry, KeyQuestion \o <<":">>)
         THEN ExtractValueThrows(entry, KeyQuestion)
         ELSE IF StartsWith(entry, KeyAnswer \o <<":">>)
              THEN ExtractValueThrows(entry, KeyAnswer)
              ELSE FALSE

\* The if / else if chain of LoadCardsFromYaml that stores one key of a card.
StoreKey(card, entry) ==
    IF StartsWith(entry, KeyId \o <<":">>)
    THEN [card EXCEPT !.id = ExtractValue(entry, KeyId)]
    ELSE IF StartsWith(entry, KeyQuestion \o <<":">>)
         THEN [card EXCEPT !.question = ExtractValue(entry, KeyQuestion)]
         ELSE IF StartsWith(entry, KeyAnswer \o <<":">>)
              THEN [card EXCEPT !.answer = ExtractValue(entry, KeyAnswer)]
              ELSE card

\* A variant of CardsWith that keeps a card whatever it lacks.
CardsWithAny(cs, inCard, card) == IF inCard THEN Append(cs, card) ELSE cs

\* cards after "if (inCard && IsCardComplete(currentCard)) push_back"
CardsWith(cs, inCard, card) ==
    IF inCard /\ IsCardComplete(card) THEN Append(cs, card) ELSE cs

\* One turn of the while loop of LoadCardsFromYaml: the loader's cards,
\* currentCard and inCard after the line, and whether the line made it throw.
ReadLine(st, line) ==
    LET trimmed == Trim(line)
        entry == Trim(Substr(trimmed, 2, Len(trimmed) - 2))
    IN  IF trimmed = <<>> \/ trimmed[1] = "#"
        THEN st
        ELSE IF trimmed = <<"c", "a", "r", "d", "s", ":">>
        THEN st
        ELSE IF StartsWith(trimmed, <<"-", " ">>)
        THEN IF StoreKeyThrows(entry)
             THEN [st EXCEPT !.thrown = TRUE]
             ELSE [cards |-> CardsWith(st.cards, st.inCard, st.currentCard),
                   currentCard |-> StoreKey(Card(<<>>, <<>>, <<>>), entry),
                   inCard |-> TRUE,
                   thrown |-> FALSE]
        ELSE IF ~st.inCard
        THEN st
        ELSE IF StoreKeyThrows(trimmed)
        THEN [st EXCEPT !.thrown = TRUE]
        ELSE [st EXCEPT !.currentCard = StoreKey(st.currentCard, trimmed)]

\* The while loop of LoadCardsFromYaml, left by a throw.
RECURSIVE ReadLines(_, _)
ReadLines(st, lines) ==
    IF lines = <<>> \/ st.thrown
    THEN st
    ELSE ReadLines(ReadLine(st, Head(lines)), Tail(lines))

\* The loader after the last line of an open file, or where it threw.
ReadFile(file) ==
    ReadLines([cards |-> <<>>, currentCard |-> Card(<<>>, <<>>, <<>>),
               inCard |-> FALSE, thrown |-> FALSE], file.lines)

\* LoadCardsFromYaml ends in an exception that nothing catches.
LoadCardsFromYamlThrows(file) == file.open /\ ReadFile(file).thrown

\* The cards LoadCardsFromYaml returns when it returns.
LoadCardsFromYaml(file) ==
    IF ~file.open
    THEN <<>>
    ELSE LET st == ReadFile(file)
         IN  CardsWith(st.cards, st.inCard, st.currentCard)

\* A cards.yaml that can be opened, with its lines.
TextFile(lines) == [open |-> TRUE, lines |-> lines]

\* No cards.yaml that can be opened.
MissingFile == [open |-> FALSE, lines |-> <<>>]

\* cards.yaml without a byte in it.
EmptyFile == TextFile(<<>>)

\* cards.yaml with only a comment, the cards: line, a blank line and a
\* key outside any card.
CommentsFile ==
    TextFile(<< <<"#", " ", "d", "e", "c", "k">>,
      <<"c", "a", "r", "d", "s", ":">>,
      <<>>,
      <<"i", "d", ":", " ", "s", "t", "r", "a", "y">> >>)

\* cards.yaml with one card without an answer.
IncompleteFile ==
    TextFile(<< <<"c", "a", "r", "d", "s", ":">>,
      <<" ", " ", "-", " ", "i", "d", ":", " ", "x">>,
      <<" ", " ", " ", " ", "q", "u", "e", "s", "t", "i", "o", "n", ":", " ", "Q", "1">> >>)

\* cards.yaml with one card, its last line ending in a carriage return.
OneCardFile ==
    TextFile(<< <<"c", "a", "r", "d", "s", ":">>,
      <<" ", " ", "-", " ", "i", "d", ":", " ", "c", "a", "r", "d", "-", "0", "1">>,
      <<" ", " ", " ", " ", "q", "u", "e", "s", "t", "i", "o", "n", ":", " ", "Q", "1">>,
      <<" ", " ", " ", " ", "a", "n", "s", "w", "e", "r", ":", " ", "A", "1", "\r">> >>)

\* cards.yaml with two complete cards, the first starting with its
\* question, and a third card without an answer.
TwoCardFile ==
    TextFile(<< <<"-", " ", "q", "u", "e", "s", "t", "i", "o", "n", ":", " ", "Q", "1">>,
      <<" ", " ", "i", "d", ":", " ", "c", "a", "r", "d", "-", "2">>,
      <<" ", " ", "a", "n", "s", "w", "e", "r", ":", " ", "A", "1">>,
      <<"-", " ", "i", "d", ":", " ", "c", "a", "r", "d", "-", "1">>,
      <<"\t", "q", "u", "e", "s", "t", "i", "o", "n", ":", " ", "Q", "2">>,
      <<" ", " ", "a", "n", "s", "w", "e", "r", ":", " ", "A", "2">>,
      <<"-", " ", "i", "d", ":", " ", "h", "a", "l", "f">>,
      <<" ", " ", "q", "u", "e", "s", "t", "i", "o", "n", ":", " ", "Q", "3">> >>)

\* cards.yaml with two cards with the same id, which is not ASCII.
SameIdFile ==
    TextFile(<< <<"-", " ", "i", "d", ":", " ", "0xC3", "0xA9", "t", "0xC3", "0xA9">>,
      <<" ", " ", "q", "u", "e", "s", "t", "i", "o", "n", ":", " ", "Q", "1">>,
      <<" ", " ", "a", "n", "s", "w", "e", "r", ":", " ", "A", "1">>,
      <<"-", " ", "i", "d", ":", " ", "0xC3", "0xA9", "t", "0xC3", "0xA9">>,
      <<" ", " ", "q", "u", "e", "s", "t", "i", "o", "n", ":", " ", "Q", "2">>,
      <<" ", " ", "a", "n", "s", "w", "e", "r", ":", " ", "A", "2">> >>)

\* cards.yaml whose only card has an id that is not UTF-8.
InvalidUtf8File == TextFile(<< <<"-", " ", "i", "d", ":", " ", "0xFF">> >>)

\* The deck files the program is started with.
YamlFiles ==
    {MissingFile, EmptyFile, CommentsFile, IncompleteFile, InvalidUtf8File,
     OneCardFile, TwoCardFile, SameIdFile}

\* LoadCards() with loadedCards = LoadCardsFromYaml("cards.yaml")
LoadCards(loadedCards) ==
    IF loadedCards # <<>> THEN loadedCards ELSE LoadDefaultCards

\* Text the user may have typed into the question edit of a New Card window.
QuestionInputs ==
    { <<>>, <<" ", "\t">>, <<"\r", "\n", "Q", " ", "R", " ">> }

\* Text the user may have typed into the answer edit of a New Card window.
AnswerInputs ==
    { <<>>, <<"\n">>, <<"A">>, <<"\t", "A", "\r", "\n">> }

(***************************************************************************)
(* State.                                                                  *)
(***************************************************************************)
VARIABLES
    cards,                \* g_state.cards
    currentCardIndex,     \* g_state.currentCardIndex, counted from 0
    answerVisible,        \* g_state.answerVisible
    logOpen,              \* g_state.answerLog.is_open()
    answerLog,            \* lines this run has written to answers.log
    topEdit,              \* text of controls.hTopEdit
    bottomEdit,           \* text of controls.hBottomEdit
    ratingButtonsEnabled, \* hBtnGood, hBtnMeh and hBtnBad are enabled
    pc,                   \* "idle", "deckCompleted" while AdvanceToNextCard
                          \* waits in its MessageBoxW, or "terminated"
    loopCounter,          \* int counter of a GenerateUniqueId that is in its
                          \* loop, 0 when none is
    newCardWindows,       \* New Card windows that are open
    lastOp,               \* history: the handler that ran last
    rated,                \* history: <<card id, rating>> of every rating passed on
    lap,                  \* history: ratings and end-of-deck boxes since index 0
    review                \* history: the index whose answer ShowAnswer has shown,
                          \* and the cards rated since the last end-of-deck box

vars == <<cards, currentCardIndex, answerVisible, logOpen, answerLog, topEdit,
          bottomEdit, ratingButtonsEnabled, pc, loopCounter, newCardWindows,
          lastOp, rated, lap, review>>

display == <<topEdit, bottomEdit, ratingButtonsEnabled>>

\* g_state.cards[g_state.currentCardIndex % g_state.cards.size()]
CurrentCard(cs, index) == cs[(index % Len(cs)) + 1]

\* History record of one handler run: its name, its rating argument, whether
\* the answer was visible when it started, whether it got past its early
\* returns, the message box it opened, and whether the handler before it was
\* a save that added a card.
Op(name, rating, done, box) ==
    [op |-> name, rating |-> rating, visible |-> answerVisible, done |-> done,
     box |-> box, afterSave |-> lastOp.op = "save" /\ lastOp.done]

\* History of the review since the last end-of-deck box: a box that has been
\* opened closes the period, and the next rating or added card starts one.
Period ==
    IF review.fired
    THEN [review EXCEPT !.seen = {}, !.added = FALSE, !.fired = FALSE]
    ELSE review

\* review after a handler that may have called ShowAnswer: revealed is the
\* index whose answer went on display.
ReviewAfterReveal ==
    IF ~answerVisible /\ answerVisible'
    THEN [review EXCEPT !.revealed = currentCardIndex]
    ELSE review

\* review after a rating handler: a rating that was passed on adds the rated
\* position to the period, notes the end-of-deck box, and makes the next card
\* current with nothing revealed.
ReviewAfterRating ==
    IF rated' = rated
    THEN review
    ELSE [revealed |-> -1,
          seen |-> Period.seen \cup {currentCardIndex + 1},
          added |-> Period.added,
          fired |-> pc' = "deckCompleted"]

\* review after HandleSaveNewCard has added a card and made it current.
ReviewAfterSave == [Period EXCEPT !.revealed = -1, !.added = TRUE]

\* L"No cards available."
NoCardsText ==
    <<"N", "o", " ", "c", "a", "r", "d", "s", " ", "a", "v", "a", "i", "l", "a",
      "b", "l", "e", ".">>

(***************************************************************************)
(* Functions of the program that the handlers call.                        *)
(***************************************************************************)
\* A variant of LoadCurrentCard that leaves the answer as it is.
LoadCurrentCardKeepsAnswer(cs, index) ==
    IF cs = <<>>
    THEN /\ topEdit' = NoCardsText
         /\ UNCHANGED <<bottomEdit, answerVisible, ratingButtonsEnabled>>
    ELSE /\ topEdit' = CurrentCard(cs, index).question
         /\ UNCHANGED <<bottomEdit, answerVisible, ratingButtonsEnabled>>

\* LoadCurrentCard(hwnd) run on deck cs and index: shows the question, blanks
\* the answer, hides it and disables the rating buttons.
LoadCurrentCard(cs, index) ==
    IF cs = <<>>
    THEN /\ topEdit' = NoCardsText
         /\ UNCHANGED <<bottomEdit, answerVisible, ratingButtonsEnabled>>
    ELSE /\ topEdit' = CurrentCard(cs, index).question
         /\ bottomEdit' = <<>>
         /\ answerVisible' = FALSE
         /\ ratingButtonsEnabled' = FALSE

\* A variant of ShowAnswer that hides a visible answer again.
ShowAnswerToggle ==
    IF cards = <<>>
    THEN UNCHANGED <<bottomEdit, answerVisible, ratingButtonsEnabled>>
    ELSE /\ bottomEdit' = IF answerVisible
                          THEN <<>>
                          ELSE CurrentCard(cards, currentCardIndex).answer
         /\ answerVisible' = ~answerVisible
         /\ ratingButtonsEnabled' = ~answerVisible

\* A variant of ShowAnswer that does not test the deck for being empty and
\* finds an empty answer where no card is.
ShowAnswerOnAnyDeck ==
    IF answerVisible
    THEN UNCHANGED <<bottomEdit, answerVisible, ratingButtonsEnabled>>
    ELSE /\ bottomEdit' = IF cards = <<>>
                          THEN <<>>
                          ELSE CurrentCard(cards, currentCardIndex).answer
         /\ answerVisible' = TRUE
         /\ ratingButtonsEnabled' = TRUE

\* ShowAnswer(): returns at once on an empty deck or a visible answer.
ShowAnswer ==
    IF cards = <<>> \/ answerVisible
    THEN UNCHANGED <<bottomEdit, answerVisible, ratingButtonsEnabled>>
    ELSE /\ bottomEdit' = CurrentCard(cards, currentCardIndex).answer
         /\ answerVisible' = TRUE
         /\ ratingButtonsEnabled' = TRUE

\* A variant of AppendRatingToLog that writes the line in front of the others.
AppendRatingToLogFront(card, rating) ==
    IF ~logOpen \/ card.id = <<>>
    THEN answerLog
    ELSE <<<<ToUtf8(card.id), RatingToText(rating)>>>> \o answerLog

\* AppendRatingToLog(card, rating): the log after the call.  The time stamp
\* that starts the line is the wall clock and is left out of the line.
AppendRatingToLog(card, rating) ==
    IF ~logOpen \/ card.id = <<>>
    THEN answerLog
    ELSE Append(answerLog, <<ToUtf8(card.id), RatingToText(rating)>>)

\* A variant of NextIndex that passes over a card.
NextIndexSkipsCard(index, size) == (index + 2) % size

\* A variant of NextIndex that goes back to 0 one card too late.
NextIndexWrapLate(index, size) == IF index >= size THEN 0 ELSE index + 1

\* A variant of NextIndex that never goes back to 0.
NextIndexNoModulo(index, size) == index + 1

\* (g_state.currentCardIndex + 1) % g_state.cards.size()
NextIndex(index, size) == (index + 1) % size

\* A variant of AdvanceToNextCard that tests the index for 0 before moving it.
AdvanceTestsOldIndex ==
    IF cards = <<>>
    THEN UNCHANGED <<currentCardIndex, pc, answerVisible, display>>
    ELSE /\ currentCardIndex' = NextIndex(currentCardIndex, Len(cards))
         /\ IF currentCardIndex = 0
            THEN /\ pc' = "deckCompleted"
                 /\ UNCHANGED <<answerVisible, display>>
            ELSE /\ pc' = "idle"
                 /\ LoadCurrentCard(cards, currentCardIndex')

\* AdvanceToNextCard(hwnd) up to the return of LoadCurrentCard, or up to the
\* MessageBoxW that reports the end of the deck.  The box runs its own message
\* loop; LoadCurrentCard runs when the box is dismissed (DismissDeckCompleted).
AdvanceToNextCard ==
    IF cards = <<>>
    THEN UNCHANGED <<currentCardIndex, pc, answerVisible, display>>
    ELSE /\ currentCardIndex' = NextIndex(currentCardIndex, Len(cards))
         /\ IF currentCardIndex' = 0
            THEN /\ pc' = "deckCompleted"
                 /\ UNCHANGED <<answerVisible, display>>
            ELSE /\ pc' = "idle"
                 /\ LoadCurrentCard(cards, currentCardIndex')

\* The lap history after a rating was passed on from index, boxes being the
\* end-of-deck boxes it opened: a lap starts with the rating given at index 0
\* and is intact until a card is added.
LapAfterRating(index, boxes) ==
    IF index = 0
    THEN [ratings |-> 1, boxes |-> boxes, intact |-> TRUE]
    ELSE [ratings |-> lap.ratings + 1, boxes |-> lap.boxes + boxes,
          intact |-> lap.intact]

\* A variant of RatedCard read after the index has moved on.
RatedCardAfterAdvance ==
    CurrentCard(cards, NextIndex(currentCardIndex, Len(cards)))

\* The card whose rating HandleRating logs.
RatedCard == CurrentCard(cards, currentCardIndex)

\* A variant of HandleRating without the test of answerVisible.
HandleRatingUnguarded(rating) ==
    /\ answerLog' = AppendRatingToLog(RatedCard, rating)
    /\ AdvanceToNextCard
    /\ rated' = Append(rated, <<RatedCard.id, rating>>)
    /\ lap' = LapAfterRating(currentCardIndex,
                             IF pc' = "deckCompleted" THEN 1 ELSE 0)

\* A variant of HandleRating that gives up when the log is not open.
HandleRatingNeedsLog(rating) ==
    IF ~answerVisible \/ ~logOpen
    THEN UNCHANGED <<currentCardIndex, pc, answerVisible, display, answerLog,
                     rated, lap>>
    ELSE /\ answerLog' = AppendRatingToLog(RatedCard, rating)
         /\ AdvanceToNextCard
         /\ rated' = Append(rated, <<RatedCard.id, rating>>)
         /\ lap' = LapAfterRating(currentCardIndex,
                                  IF pc' = "deckCompleted" THEN 1 ELSE 0)

\* HandleRating(hwnd, rating)
HandleRating(rating) ==
    IF ~answerVisible
    THEN UNCHANGED <<currentCardIndex, pc, answerVisible, display, answerLog,
                     rated, lap>>
    ELSE /\ answerLog' = AppendRatingToLog(RatedCard, rating)
         /\ AdvanceToNextCard
         /\ rated' = Append(rated, <<RatedCard.id, rating>>)
         /\ lap' = LapAfterRating(currentCardIndex,
                                  IF pc' = "deckCompleted" THEN 1 ELSE 0)

IdExists(cs, id) == \E i \in 1..Len(cs) : cs[i].id = id

\* The loop of GenerateUniqueId from one value of counter on.
RECURSIVE GenerateUniqueIdFrom(_, _)
GenerateUniqueIdFrom(cs, counter) ==
    LET candidate == CardPrefix \o ToWString(counter)
    IN  IF ~IdExists(cs, candidate)
        THEN candidate
        ELSE GenerateUniqueIdFrom(cs, counter + 1)

\* int counter = 1;
FirstCounter == 1

\* A variant of GenerateUniqueId that does not look at the deck.
GenerateUniqueIdUnchecked(cs) == CardPrefix \o ToWString(FirstCounter)

\* A variant of GenerateUniqueId that numbers the new card by the deck size.
GenerateUniqueIdBySize(cs) == CardPrefix \o ToWString(Len(cs) + 1)

GenerateUniqueId(cs) == GenerateUniqueIdFrom(cs, FirstCounter)

\* The test of HandleSaveNewCard on the trimmed texts.
SaveAccepted(question, answer) == ~(question = <<>> \/ answer = <<>>)

\* A variant of HandleSaveNewCard that puts the new card in front of the deck.
HandleSaveNewCardInFront(questionText, answerText) ==
    LET question == TrimWide(questionText)
        answer == TrimWide(answerText)
    IN  IF ~SaveAccepted(question, answer)
        THEN /\ lastOp' = Op("save", "none", FALSE, "validation")
             /\ UNCHANGED <<cards, currentCardIndex, answerVisible, display,
                            newCardWindows, lap, review>>
        ELSE /\ Len(cards) < MaxCards
             /\ cards' = <<Card(GenerateUniqueId(cards), question, answer)>> \o cards
             /\ currentCardIndex' = Len(cards') - 1
             /\ LoadCurrentCard(cards', currentCardIndex')
             /\ newCardWindows' = newCardWindows - 1
             /\ lap' = [lap EXCEPT !.intact = FALSE]
             /\ review' = ReviewAfterSave
             /\ lastOp' = Op("save", "none", TRUE, "saved")

\* A variant of HandleSaveNewCard that leaves the index where it was.
HandleSaveNewCardKeepsIndex(questionText, answerText) ==
    LET question == TrimWide(questionText)
        answer == TrimWide(answerText)
    IN  IF ~SaveAccepted(question, answer)
        THEN /\ lastOp' = Op("save", "none", FALSE, "validation")
             /\ UNCHANGED <<cards, currentCardIndex, answerVisible, display,
                            newCardWindows, lap, review>>
        ELSE /\ Len(cards) < MaxCards
             /\ cards' = Append(cards, Card(GenerateUniqueId(cards), question, answer))
             /\ currentCardIndex' = currentCardIndex
             /\ LoadCurrentCard(cards', currentCardIndex')
             /\ newCardWindows' = newCardWindows - 1
             /\ lap' = [lap EXCEPT !.intact = FALSE]
             /\ review' = ReviewAfterSave
             /\ lastOp' = Op("save", "none", TRUE, "saved")

\* HandleSaveNewCard(hwnd, state) with the two edits holding questionText and
\* answerText.  Both of its message boxes come after its last change of
\* g_state; what follows them is DestroyWindow of the New Card window.
HandleSaveNewCard(questionText, answerText) ==
    LET question == TrimWide(questionText)
        answer == TrimWide(answerText)
    IN  IF ~SaveAccepted(question, answer)
        THEN /\ lastOp' = Op("save", "none", FALSE, "validation")
             /\ UNCHANGED <<cards, currentCardIndex, answerVisible, display,
                            newCardWindows, lap, review>>
        ELSE /\ Len(cards) < MaxCards
             /\ cards' = Append(cards, Card(GenerateUniqueId(cards), question, answer))
             /\ currentCardIndex' = Len(cards') - 1
             /\ LoadCurrentCard(cards', currentCardIndex')
             /\ newCardWindows' = newCardWindows - 1
             /\ lap' = [lap EXCEPT !.intact = FALSE]
             /\ review' = ReviewAfterSave
             /\ lastOp' = Op("save", "none", TRUE, "saved")

(***************************************************************************)
(* Startup: WM_CREATE of the main window.                                  *)
(***************************************************************************)
\* The history record of the startup from cards.yaml being file.
InitOp(file) ==
    [op |-> "init", rating |-> "none", visible |-> FALSE, done |-> TRUE,
     box |-> "none", afterSave |-> FALSE, file |-> file]

\* The state WM_CREATE leaves when it returns with deck in g_state.cards: the
\* log opened or not, the controls as created (empty edits, enabled buttons)
\* and then as LoadCurrentCard sets them.
Started(deck) ==
    /\ cards = deck
    /\ logOpen \in BOOLEAN
    /\ topEdit = IF cards = <<>> THEN NoCardsText ELSE CurrentCard(cards, 0).question
    /\ ratingButtonsEnabled = (cards = <<>>)
    /\ pc = "idle"

\* The state in which the run ends when LoadCards throws in WM_CREATE: nothing
\* catches the exception, g_state is as constructed and no control exists.
Terminated ==
    /\ cards = <<>>
    /\ logOpen = FALSE
    /\ topEdit = <<>>
    /\ ratingButtonsEnabled = FALSE
    /\ pc = "terminated"

\* What startup leaves of g_state as constructed, and the history at startup.
Constructed(file) ==
    /\ currentCardIndex = 0
    /\ loopCounter = 0
    /\ answerLog = <<>>
    /\ bottomEdit = <<>>
    /\ answerVisible = FALSE
    /\ newCardWindows = 0
    /\ lastOp = InitOp(file)
    /\ rated = <<>>
    /\ lap = [ratings |-> 0, boxes |-> 0, intact |-> TRUE]
    /\ review = [revealed |-> -1, seen |-> {}, added |-> FALSE, fired |-> FALSE]

\* Startup with cards.yaml being file.
InitFrom(file) ==
    /\ IF LoadCardsFromYamlThrows(file)
       THEN Terminated
       ELSE Started(LoadCards(LoadCardsFromYaml(file)))
    /\ Constructed(file)

Init == \E file \in YamlFiles : InitFrom(file)

(***************************************************************************)
(* Handlers.  The main window is disabled while the end-of-deck box is up  *)
(* and the keys are only looked at by the loop of wWinMain, so the main    *)
(* window's handlers need pc = "idle"; a New Card window that is open      *)
(* stays enabled.                                                          *)
(***************************************************************************)
\* WM_COMMAND ID_BTN_SHOWANSWER
CommandShowAnswer ==
    /\ pc = "idle"
    /\ ShowAnswer
    /\ topEdit' = topEdit
    /\ lastOp' = Op("reveal", "none", ~answerVisible, "none")
    /\ review' = ReviewAfterReveal
    /\ UNCHANGED <<cards, currentCardIndex, logOpen, answerLog, pc,
                   newCardWindows, rated, lap>>
    /\ loopCounter' = loopCounter

\* HandleKeyDown with VK_SPACE or VK_RETURN
KeyDownReveal ==
    /\ pc = "idle"
    /\ IF ~answerVisible
       THEN ShowAnswer
       ELSE UNCHANGED <<bottomEdit, answerVisible, ratingButtonsEnabled>>
    /\ topEdit' = topEdit
    /\ lastOp' = Op("reveal", "none", ~answerVisible, "none")
    /\ review' = ReviewAfterReveal
    /\ UNCHANGED <<cards, currentCardIndex, logOpen, answerLog, pc,
                   newCardWindows, rated, lap>>
    /\ loopCounter' = loopCounter

\* What a rating handler records about itself.
RatingOp(rating) ==
    Op("rate", rating, answerVisible,
       IF pc' = "deckCompleted" THEN "deckCompleted" ELSE "none")

\* WM_COMMAND ID_BTN_GOOD, ID_BTN_MEH or ID_BTN_BAD: the button must be enabled.
CommandRating(rating) ==
    /\ pc = "idle"
    /\ ratingButtonsEnabled
    /\ answerVisible => Len(rated) < MaxRatings
    /\ HandleRating(rating)
    /\ lastOp' = RatingOp(rating)
    /\ review' = ReviewAfterRating
    /\ UNCHANGED <<cards, logOpen, newCardWindows>>
    /\ loopCounter' = loopCounter

\* HandleKeyDown with '1', '2', '3' or the numeric pad keys
KeyDownRating(rating) ==
    /\ pc = "idle"
    /\ answerVisible => Len(rated) < MaxRatings
    /\ HandleRating(rating)
    /\ lastOp' = RatingOp(rating)
    /\ review' = ReviewAfterRating
    /\ UNCHANGED <<cards, logOpen, newCardWindows>>
    /\ loopCounter' = loopCounter

\* The end-of-deck MessageBoxW returns and AdvanceToNextCard goes on.
DismissDeckCompleted ==
    /\ pc = "deckCompleted"
    /\ pc' = "idle"
    /\ LoadCurrentCard(cards, currentCardIndex)
    /\ lastOp' = Op("dismiss", "none", TRUE, "none")
    /\ UNCHANGED <<cards, currentCardIndex, logOpen, answerLog, newCardWindows,
                   rated, lap, review>>
    /\ loopCounter' = loopCounter

\* WM_COMMAND ID_MENU_FILE_NEW_CARD: CreateNewCardWindow
CommandNewCard ==
    /\ pc = "idle"
    /\ newCardWindows < MaxWindows
    /\ newCardWindows' = newCardWindows + 1
    /\ lastOp' = Op("newCardWindow", "none", TRUE, "none")
    /\ UNCHANGED <<cards, currentCardIndex, answerVisible, logOpen, answerLog,
                   display, pc, rated, lap, review>>
    /\ loopCounter' = loopCounter

\* WM_COMMAND ID_NEW_CARD_SAVE of an open New Card window
CommandSaveNewCard(questionText, answerText) ==
    /\ newCardWindows > 0
    /\ HandleSaveNewCard(questionText, answerText)
    /\ UNCHANGED <<logOpen, answerLog, pc, rated>>
    /\ loopCounter' = loopCounter

\* The user closes a New Card window without saving: WM_DESTROY frees its
\* state and touches nothing of g_state.
CloseNewCardWindow ==
    /\ newCardWindows > 0
    /\ newCardWindows' = newCardWindows - 1
    /\ lastOp' = Op("closeNewCardWindow", "none", TRUE, "none")
    /\ UNCHANGED <<cards, currentCardIndex, answerVisible, logOpen, answerLog,
                   display, pc, rated, lap, review>>
    /\ loopCounter' = loopCounter

\* One message handled by the program.  Leaving the program (VK_ESCAPE, or
\* closing the main window) ends the run and is not a step.
Next ==
    \/ CommandShowAnswer
    \/ KeyDownReveal
    \/ \E rating \in Rating : CommandRating(rating)
    \/ \E rating \in Rating : KeyDownRating(rating)
    \/ DismissDeckCompleted
    \/ CommandNewCard
    \/ CloseNewCardWindow
    \/ \E questionText \in QuestionInputs, answerText \in AnswerInputs :
           CommandSaveNewCard(questionText, answerText)

Spec == Init /\ [][Next]_vars

(***************************************************************************)
(* The functions on an empty deck.  LoadCards never returns one, so this   *)
(* second specification starts the handlers on a g_state.cards that is      *)
(* empty as constructed, with the window as WM_CREATE would leave it, and   *)
(* calls AdvanceToNextCard, which no handler calls with the answer hidden.  *)
(***************************************************************************)
InitEmptyDeck == Started(<<>>) /\ Constructed("none")

\* AdvanceToNextCard(hwnd) called on the empty deck.
CallAdvanceToNextCard ==
    /\ pc = "idle"
    /\ cards = <<>>
    /\ AdvanceToNextCard
    /\ lastOp' = Op("advance", "none", TRUE, "none")
    /\ UNCHANGED <<cards, logOpen, answerLog, newCardWindows, rated, lap, review>>
    /\ loopCounter' = loopCounter

NextEmptyDeck == Next \/ CallAdvanceToNextCard

SpecEmptyDeck == InitEmptyDeck /\ [][NextEmptyDeck]_vars

(***************************************************************************)
(* The loop of GenerateUniqueId, one turn a step.  This third              *)
(* specification starts a call on decks whose ids are drawn from a small    *)
(* set; pc is "generate" while the call is in its loop and "returned"       *)
(* after its return, and the thread that runs the loop does not stop in it. *)
(***************************************************************************)
\* The value of counter at which the model gives up following the loop.
MaxCounter == MaxCards + 2

\* Ids a card of the deck may have: card-1, card-2, ... and two that no
\* candidate of the loop equals.
IdInputs ==
    {CardPrefix \o ToWString(k) : k \in 1..MaxCards}
        \cup {CardPrefix \o <<"0", "1">>, <<"x">>}

\* The decks GenerateUniqueId is called on: any ids, the same id more than
\* once included.
DeckInputs ==
    UNION {{[i \in 1..n |-> Card(ids[i], <<"Q">>, <<"A">>)] :
               ids \in [1..n -> IdInputs]} : n \in 0..MaxCards}

InitGenerateUniqueId ==
    /\ cards \in DeckInputs
    /\ loopCounter = FirstCounter
    /\ pc = "generate"
    /\ logOpen \in BOOLEAN
    /\ topEdit = IF cards = <<>> THEN NoCardsText ELSE CurrentCard(cards, 0).question
    /\ ratingButtonsEnabled = (cards = <<>>)
    /\ currentCardIndex = 0
    /\ answerLog = <<>>
    /\ bottomEdit = <<>>
    /\ answerVisible = FALSE
    /\ newCardWindows = 1
    /\ lastOp = InitOp("none")
    /\ rated = <<>>
    /\ lap = [ratings |-> 0, boxes |-> 0, intact |-> TRUE]
    /\ review = [revealed |-> -1, seen |-> {}, added |-> FALSE, fired |-> FALSE]

\* A variant of NextCounter that leaves counter as it is.
NextCounterStuck(c) == c

\* ++counter
NextCounter(c) == c + 1

\* A turn of the loop whose candidate is the id of a card.
LoopGenerateUniqueId ==
    /\ pc = "generate"
    /\ loopCounter < MaxCounter
    /\ IdExists(cards, CardPrefix \o ToWString(loopCounter))
    /\ loopCounter' = NextCounter(loopCounter)
    /\ UNCHANGED <<cards, currentCardIndex, answerVisible, logOpen, answerLog,
                   display, pc, newCardWindows, lastOp, rated, lap, review>>

\* The turn of the loop that returns the candidate; the history notes it.
ReturnGenerateUniqueId ==
    /\ pc = "generate"
    /\ ~IdExists(cards, CardPrefix \o ToWString(loopCounter))
    /\ pc' = "returned"
    /\ lastOp' = [op |-> "GenerateUniqueId", rating |-> "none", visible |-> FALSE,
                  done |-> TRUE, box |-> "none", afterSave |-> FALSE,
                  id |-> CardPrefix \o ToWString(loopCounter)]
    /\ UNCHANGED <<cards, currentCardIndex, answerVisible, logOpen, answerLog,
                   display, loopCounter, newCardWindows, rated, lap, review>>

NextGenerateUniqueId == LoopGenerateUniqueId \/ ReturnGenerateUniqueId

SpecGenerateUniqueId ==
    /\ InitGenerateUniqueId
    /\ [][NextGenerateUniqueId]_vars
    /\ WF_vars(NextGenerateUniqueId)

(***************************************************************************)
(* Properties.                                                             *)
(***************************************************************************)
\* The program is running: startup has not ended in an exception.
Running == pc # "terminated"

\* A step taken by a rating handler (key or button) with rating r.
RateStep == lastOp'.op = "rate"

\* C1: a rating given while the answer is hidden writes nothing to the log
\* and leaves currentCardIndex, answerVisible, the deck and the log as they
\* were, for each of Bad, Meh and Good.
C1_RateWhileHiddenIsNoOp ==
    [][\A r \in Rating :
          (RateStep /\ lastOp'.rating = r /\ ~answerVisible)
              => UNCHANGED <<currentCardIndex, answerVisible, cards, answerLog>>]_vars

\* A rating handler has just run on a hidden answer, after some rating had
\* been logged.
C1_Witness ==
    /\ lastOp.op = "rate"
    /\ ~lastOp.visible
    /\ ~lastOp.done
    /\ answerLog # <<>>

\* C2: a rating given while the answer is visible and the log is open adds
\* exactly one line to the log, and the line carries the id of the card that
\* was current when the handler started (not of the card advanced to) and the
\* rating given.
C2_RateLogsCurrentCard ==
    [][(RateStep /\ answerVisible /\ logOpen)
          => answerLog' = Append(answerLog,
                                 <<ToUtf8(cards[currentCardIndex + 1].id),
                                   RatingToText(lastOp'.rating)>>)]_vars

\* A visible answer was just rated with the log open, on a deck whose next
\* card has another id, and the handler has moved on to that card.
C2_Witness ==
    /\ lastOp.op = "rate"
    /\ lastOp.done
    /\ logOpen
    /\ Len(answerLog) = 1
    /\ currentCardIndex = 1
    /\ answerLog[1][1] # ToUtf8(cards[2].id)

\* C3: while the program runs, in a lap that started at index 0 and during
\* which no card was added, the index is back at 0 after exactly as many
\* passed-on ratings as the deck has cards, and the end-of-deck box has been
\* opened once, by the last of them; before that the index is not 0 and no
\* box has been opened.
C3_DeckCycling ==
    (Running /\ lap.intact) =>
        /\ lap.ratings <= Len(cards)
        /\ lap.ratings = Len(cards) => (currentCardIndex = 0 /\ lap.boxes = 1)
        /\ lap.ratings < Len(cards) => lap.boxes = 0
        /\ (0 < lap.ratings /\ lap.ratings < Len(cards)) => currentCardIndex # 0

\* The built-in deck of three cards has been rated through once.
C3_Witness ==
    /\ lap.intact
    /\ cards = LoadDefaultCards
    /\ lap.ratings = 3
    /\ lap.boxes = 1
    /\ currentCardIndex = 0

\* C4: a rating handler that gets to AdvanceToNextCard on a deck of n cards
\* at index i sets the index to (i + 1) mod n and opens the end-of-deck box
\* exactly when the new index is 0; the answer is hidden when
\* AdvanceToNextCard returns, which is in the same step without the box and
\* when the box is dismissed with it.
C4_Advance ==
    [][/\ (RateStep /\ answerVisible) =>
            /\ currentCardIndex' = (currentCardIndex + 1) % Len(cards)
            /\ (pc' = "deckCompleted") <=> (currentCardIndex' = 0)
            /\ (pc' = "idle") => ~answerVisible'
       /\ (pc = "deckCompleted" /\ pc' = "idle") => ~answerVisible']_vars

\* On a deck of one card the end-of-deck box is up after a second rating.
C4_Witness ==
    /\ Len(cards) = 1
    /\ Len(rated) = 2
    /\ lastOp.op = "rate"
    /\ lastOp.box = "deckCompleted"
    /\ pc = "deckCompleted"
    /\ currentCardIndex = 0

\* A step taken by a reveal handler (Show Answer button, space or return).
RevealStep == lastOp'.op = "reveal"

\* Everything the program keeps, the history variables left out.
program == <<cards, currentCardIndex, answerVisible, logOpen, answerLog,
             topEdit, bottomEdit, ratingButtonsEnabled, pc, newCardWindows>>

\* C5: revealing a hidden answer makes it visible and leaves the index, the
\* deck and the log as they were; revealing a visible answer changes nothing
\* the program keeps, so a second reveal leaves what the first one left.
C5_RevealIdempotent ==
    [][RevealStep =>
          /\ ~answerVisible =>
                 /\ answerVisible'
                 /\ UNCHANGED <<currentCardIndex, cards, answerLog>>
          /\ answerVisible => UNCHANGED program]_vars

\* A reveal handler has just run on an answer that was visible already.
C5_Witness ==
    /\ lastOp.op = "reveal"
    /\ lastOp.visible
    /\ ~lastOp.done
    /\ answerVisible

\* C6: while the program runs, currentCardIndex is an integer from 0 up to
\* the deck size less one.
C6_IndexInRange ==
    Running =>
        /\ currentCardIndex \in Int
        /\ 0 <= currentCardIndex
        /\ currentCardIndex < Len(cards)

\* Cards were added to the deck and a later rating has taken the index from
\* the last card back to 0.
C6_Witness ==
    /\ lap.intact = FALSE
    /\ lastOp.op = "rate"
    /\ lastOp.done
    /\ currentCardIndex = 0

\* s is a prefix of t.
IsPrefix(s, t) == Len(s) <= Len(t) /\ SubSeq(t, 1, Len(s)) = s

\* The log lines of a sequence of passed-on ratings.
LogLines(ratings) ==
    [i \in 1..Len(ratings) |-> <<ToUtf8(ratings[i][1]), RatingToText(ratings[i][2])>>]

\* C7 as claimed: the log only grows at its end, and its lines are the
\* ratings passed on, in their order, whatever the state of the log file.
C7_LogEqualsRatings ==
    /\ [][IsPrefix(answerLog, answerLog')]_vars
    /\ [](answerLog = LogLines(rated))

\* C7 as amended: the log only grows at its end; while the log file is open
\* its lines are the ratings passed on, in their order, with their card ids;
\* while it is not open the log stays empty.
C7_LogAppendOnlyOrdered ==
    /\ [][IsPrefix(answerLog, answerLog')]_vars
    /\ [](logOpen => answerLog = LogLines(rated))
    /\ [](~logOpen => answerLog = <<>>)

\* Good, Bad and Meh were given on three cards with three ids, and the log
\* holds the three lines in that order.
C7_Witness ==
    /\ logOpen
    /\ Len(answerLog) = 3
    /\ <<answerLog[1][2], answerLog[2][2], answerLog[3][2]>> = <<"good", "bad", "meh">>
    /\ <<answerLog[1][1], answerLog[2][1], answerLog[3][1]>>
           = <<ToUtf8(cards[1].id), ToUtf8(cards[2].id), ToUtf8(cards[3].id)>>
    /\ Cardinality({cards[1].id, cards[2].id, cards[3].id}) = 3

\* C8: with the log file not open, a rating given on a visible answer leaves
\* the log as it was and moves the session as it does with the log open: the
\* index goes to the next card modulo the deck size, the end-of-deck box
\* opens exactly at index 0, and the answer is hidden once AdvanceToNextCard
\* has returned; the log stays closed and the handlers stay available.
C8_RateWithoutLog ==
    [][~logOpen =>
          /\ (RateStep /\ answerVisible) =>
                 /\ answerLog' = answerLog
                 /\ cards' = cards
                 /\ currentCardIndex' = (currentCardIndex + 1) % Len(cards)
                 /\ IF currentCardIndex' = 0
                    THEN pc' = "deckCompleted"
                    ELSE pc' = "idle" /\ ~answerVisible'
          /\ lastOp'.op = "dismiss" => (pc' = "idle" /\ ~answerVisible')
          /\ ~logOpen']_vars

\* Two ratings were passed on with the log file not open.
C8_Witness ==
    /\ ~logOpen
    /\ lastOp.op = "rate"
    /\ lastOp.done
    /\ Len(rated) = 2
    /\ answerLog = <<>>
    /\ ~answerVisible

\* The ids of the cards of deck cs.
Ids(cs) == {cs[i].id : i \in 1..Len(cs)}

\* card-N
CardN(n) == CardPrefix \o ToWString(n)

\* text holds nothing but separators of TrimWide.
IsBlank(text) == \A i \in 1..Len(text) : text[i] \in Whitespace

\* A step of the Save button with one edit left blank, or with none.
SaveStep(blank) ==
    /\ lastOp'.op = "save"
    /\ \E questionText \in QuestionInputs, answerText \in AnswerInputs :
           /\ (IsBlank(questionText) \/ IsBlank(answerText)) = blank
           /\ CommandSaveNewCard(questionText, answerText)

\* C9: a save with a question and an answer that are not blank adds exactly
\* one card at the end of the deck, with the id card-N for the least N >= 1
\* that no card of the deck has, makes it the current card with its answer
\* hidden, and writes nothing to the log, whether the answer of the card
\* shown before was hidden or visible.
C9_SaveAppendsCard ==
    [][SaveStep(FALSE) =>
          /\ Len(cards') = Len(cards) + 1
          /\ SubSeq(cards', 1, Len(cards)) = cards
          /\ \E n \in 1..(Len(cards) + 1) :
                 /\ cards'[Len(cards')].id = CardN(n)
                 /\ CardN(n) \notin Ids(cards)
                 /\ \A m \in 1..(n - 1) : CardN(m) \in Ids(cards)
          /\ currentCardIndex' = Len(cards') - 1
          /\ ~answerVisible'
          /\ answerLog' = answerLog]_vars

\* A card was just saved while an answer was visible, on a deck that held
\* card-2 and card-1 and so got card-3, after a rating had been logged.
C9_Witness ==
    /\ lastOp.op = "save"
    /\ lastOp.done
    /\ lastOp.visible
    /\ answerLog # <<>>
    /\ Ids(cards) = {CardN(1), CardN(2), CardN(3)}
    /\ cards[Len(cards)].id = CardN(3)
    /\ currentCardIndex = Len(cards) - 1

\* C10: a save with a blank question or a blank answer shows the validation
\* message and leaves the deck, the index, answerVisible and the log as they
\* were.
C10_SaveRejected ==
    [][SaveStep(TRUE) =>
          /\ lastOp'.box = "validation"
          /\ UNCHANGED <<cards, currentCardIndex, answerVisible, answerLog>>]_vars

\* A save was just refused while an answer was visible.
C10_Witness ==
    /\ lastOp.op = "save"
    /\ ~lastOp.done
    /\ lastOp.box = "validation"
    /\ lastOp.visible
    /\ answerVisible

\* The deck sources that are missing, empty or without a complete card.
SourcesWithoutCompleteCard ==
    {MissingFile, EmptyFile, CommentsFile, IncompleteFile, InvalidUtf8File}

\* The ids of the built-in deck, in its order.
BuiltInIds ==
    << <<"c", "a", "p", "i", "t", "a", "l", "-", "f", "r", "a", "n", "c", "e">>,
       <<"m", "a", "t", "h", "-", "b", "a", "s", "i", "c", "-", "2", "-", "p",
         "l", "u", "s", "-", "2">>,
       <<"l", "a", "r", "g", "e", "s", "t", "-", "p", "l", "a", "n", "e", "t">> >>

\* C12: startup from a deck source that is missing, empty or without a
\* complete card gives a running program whose deck is the three built-in
\* cards capital-france, math-basic-2-plus-2 and largest-planet in this
\* order, and the deck of a running program always holds at least one card.
C12_SessionNeverEmpty ==
    /\ (lastOp.op = "init" /\ lastOp.file \in SourcesWithoutCompleteCard) =>
            /\ Running
            /\ [i \in 1..Len(cards) |-> cards[i].id] = BuiltInIds
            /\ cards = LoadDefaultCards
    /\ Running => Len(cards) >= 1
\* stored is typed without the whitespace typed in front of and behind it.
IsTrimOf(stored, typed) ==
    /\ stored # <<>>
    /\ stored[1] \notin Whitespace
    /\ stored[Len(stored)] \notin Whitespace
    /\ \E before \in 0..(Len(typed) - Len(stored)) :
           /\ SubSeq(typed, before + 1, before + Len(stored)) = stored
           /\ \A i \in 1..Len(typed) :
                  (i <= before \/ i > before + Len(stored)) => typed[i] \in Whitespace

\* No whitespace was typed in front of or behind the text.
IsTrimmed(typed) ==
    typed # <<>> /\ typed[1] \notin Whitespace /\ typed[Len(typed)] \notin Whitespace

\* C11: a save that is accepted puts the question Q and the answer A that
\* were typed (less the whitespace around them, so Q and A themselves when
\* none was typed) into the last card and shows Q; a reveal that follows the
\* save at once shows A as the answer and Q as the question, which are the
\* answer and question of the last card, the one just added.
C11_SaveThenReveal ==
    [][/\ \A questionText \in QuestionInputs, answerText \in AnswerInputs :
              (/\ lastOp'.op = "save"
               /\ lastOp'.done
               /\ CommandSaveNewCard(questionText, answerText)) =>
                  /\ IsTrimOf(cards'[Len(cards')].question, questionText)
                  /\ IsTrimOf(cards'[Len(cards')].answer, answerText)
                  /\ IsTrimmed(questionText) =>
                         cards'[Len(cards')].question = questionText
                  /\ IsTrimmed(answerText) => cards'[Len(cards')].answer = answerText
                  /\ topEdit' = cards'[Len(cards')].question
                  /\ ~answerVisible'
       /\ (lastOp.op = "save" /\ lastOp.done /\ RevealStep) =>
              /\ cards' = cards
              /\ currentCardIndex' = Len(cards) - 1
              /\ answerVisible'
              /\ topEdit' = cards[Len(cards)].question
              /\ bottomEdit' = cards[Len(cards)].answer]_vars

\* The answer of a card was revealed right after the card was saved with the
\* question "Q R" and the answer "A".
C11_Witness ==
    /\ lastOp.op = "reveal"
    /\ lastOp.afterSave
    /\ lastOp.done
    /\ answerVisible
    /\ currentCardIndex = Len(cards) - 1
    /\ topEdit = <<"Q", " ", "R">>
    /\ bottomEdit = <<"A">>
\* C13: a rating that takes the index back to 0 hides the answer in the same
\* step and leaves the program ready for the next event, and no handler
\* starts in a state left by AdvanceToNextCard between its change of the
\* index and its LoadCurrentCard: there the only step is the end of that
\* call.
C13_WrapDoesNotBlock ==
    [][/\ (RateStep /\ answerVisible /\ currentCardIndex' = 0) =>
              (~answerVisible' /\ pc' = "idle")
       /\ (pc = "deckCompleted") => lastOp'.op = "dismiss"]_vars

\* C14: while the program runs the display matches the session: with the
\* answer hidden the top edit shows the question of the card at the index,
\* the bottom edit is blank and the rating buttons are disabled; with the
\* answer visible the bottom edit shows the answer of the card at the index
\* and the rating buttons are enabled.
C14_DisplayMatchesState ==
    Running =>
        /\ ratingButtonsEnabled <=> answerVisible
        /\ ~answerVisible =>
               /\ topEdit = CurrentCard(cards, currentCardIndex).question
               /\ bottomEdit = <<>>
        /\ answerVisible => bottomEdit = CurrentCard(cards, currentCardIndex).answer
\* C15: every card of the deck has an id, a question and an answer that are
\* not empty, whether it was read from the file, is built in or was added
\* while the program ran.
C15_CardsComplete ==
    \A i \in 1..Len(cards) :
        /\ Len(cards[i].id) > 0
        /\ Len(cards[i].question) > 0
        /\ Len(cards[i].answer) > 0

\* A card was added to the two complete cards read from a file that also
\* holds a card without an answer.
C15_Witness ==
    /\ lastOp.op = "save"
    /\ lastOp.done
    /\ Len(cards) = 3
    /\ cards[1].id = CardPrefix \o <<"2">>
    /\ cards[2].id = CardPrefix \o <<"1">>
    /\ cards[3].id = CardPrefix \o <<"3">>
\* C16: on an empty deck a reveal, a rating and AdvanceToNextCard change
\* nothing of the session: the index, the visibility of the answer, the log
\* and the ratings passed on stay as they are and no card is read; the top
\* edit reads "No cards available." for as long as the deck is empty.
C16_EmptyDeckNoOps ==
    [][cards = <<>> =>
          /\ topEdit = NoCardsText
          /\ lastOp'.op \in {"reveal", "rate", "advance"} =>
                 UNCHANGED <<cards, currentCardIndex, answerVisible, answerLog,
                             rated, pc, display>>]_vars

\* A rating handler has run on the empty deck.
C16_Witness ==
    /\ cards = <<>>
    /\ currentCardIndex = 0
    /\ ~answerVisible
    /\ lastOp.op = "rate"
    /\ topEdit = NoCardsText
    /\ bottomEdit = <<>>
\* No two cards of cs have the same id.
DistinctIds(cs) ==
    \A i \in 1..Len(cs), j \in 1..Len(cs) : i # j => cs[i].id # cs[j].id

\* C17: no handler makes two ids equal: from a deck whose ids are pairwise
\* distinct, as at startup from a file with distinct ids, every step leads to
\* a deck whose ids are pairwise distinct, also when the deck holds ids
\* card-N that were read from the file.
C17_IdsStayUnique ==
    [][DistinctIds(cards) => DistinctIds(cards')]_vars

\* Two cards were added to a deck read with the one id card-01 and got the
\* ids card-1 and card-2.
C17_Witness ==
    /\ lastOp.op = "save"
    /\ lastOp.done
    /\ DistinctIds(cards)
    /\ Len(cards) = 3
    /\ cards[1].id = CardPrefix \o <<"0", "1">>
    /\ cards[2].id = CardN(1)
    /\ cards[3].id = CardN(2)
\* C18: every step leaves each card of the deck where it was, with its id,
\* question and answer, and adds at most one card behind them; a reveal and
\* a rating leave the deck as it was, and a save that is accepted adds
\* exactly one card.
C18_DeckGrowsAtEnd ==
    [][/\ Len(cards') \in {Len(cards), Len(cards) + 1}
       /\ \A i \in 1..Len(cards) : cards'[i] = cards[i]
       /\ (RevealStep \/ RateStep) => cards' = cards
       /\ (lastOp'.op = "save" /\ lastOp'.done) => Len(cards') = Len(cards) + 1
       /\ (lastOp'.op = "save" /\ ~lastOp'.done) => cards' = cards]_vars

\* A card was added behind the one card read from the file, which is still
\* the first card.
C18_Witness ==
    /\ lastOp.op = "save"
    /\ lastOp.done
    /\ Len(cards) = 2
    /\ cards[1] = Card(CardPrefix \o <<"0", "1">>, <<"Q", "1">>, <<"A", "1">>)
    /\ cards[2] = Card(CardN(1), <<"Q", " ", "R">>, <<"A">>)
\* The rating handler of this step opens the end-of-deck box.
DeckCompletedStep == RateStep /\ pc = "idle" /\ pc' = "deckCompleted"

\* C19 as stated: whenever the end-of-deck box is opened, every card of the
\* deck has been rated since the box was opened before, or since startup.
C19_AllRatedAtSignal ==
    [][DeckCompletedStep => review'.seen = 1..Len(cards')]_vars

\* C19 amended: whenever the end-of-deck box is opened and no card has been
\* added since the box was opened before, or since startup, every card of
\* the deck has been rated since then.
C19_AllRatedUnlessAdded ==
    [][(DeckCompletedStep /\ ~review'.added) => review'.seen = 1..Len(cards')]_vars

\* The end-of-deck box is up after both cards of a deck of two were rated,
\* no card having been added since startup.
C19_Witness ==
    /\ pc = "deckCompleted"
    /\ review.fired
    /\ ~review.added
    /\ Len(cards) = 2
    /\ review.seen = {1, 2}
    /\ Len(rated) = 2
\* C20: a rating is passed on, and a line is written to the log, only for
\* the card at the index whose answer ShowAnswer has shown with no
\* AdvanceToNextCard and no added card since; the rating is that card's, and
\* after it nothing counts as shown until ShowAnswer shows an answer again,
\* so no card is rated twice without a reveal between.
C20_RatedOnlyAfterReveal ==
    [][(rated' # rated \/ answerLog' # answerLog) =>
          /\ review.revealed = currentCardIndex
          /\ rated' = Append(rated, <<cards[review.revealed + 1].id, lastOp'.rating>>)
          /\ logOpen => answerLog'[Len(answerLog')][1] =
                            ToUtf8(cards[review.revealed + 1].id)
          /\ review'.revealed = -1]_vars

\* The one card of a deck was rated twice, its answer having been shown
\* again before the second rating.
C20_Witness ==
    /\ lastOp.op = "rate"
    /\ lastOp.done
    /\ Len(cards) = 1
    /\ Len(rated) = 2
    /\ rated[1][1] = rated[2][1]
    /\ review.revealed = -1
\* C21: a call of GenerateUniqueId on a deck of n cards returns: its counter
\* never passes n + 1, and the id it returns is card-N for the value N of
\* the counter at the return, is the id of no card of the deck, and is the
\* id a save gives the new card.
C21_GenerateUniqueIdTerminates ==
    /\ [](pc \in {"generate", "returned"} =>
              (1 <= loopCounter /\ loopCounter <= Len(cards) + 1))
    /\ [](pc = "returned" =>
              /\ lastOp.id = CardN(loopCounter)
              /\ lastOp.id \notin Ids(cards)
              /\ lastOp.id = GenerateUniqueId(cards))
    /\ <>(pc = "returned")

\* A call on a deck of three cards with the ids card-1, card-2 and card-3 has
\* returned card-4.
C21_Witness ==
    /\ pc = "returned"
    /\ Len(cards) = 3
    /\ loopCounter = 4
    /\ lastOp.id = CardN(4)

====
